---- MODULE Spec2Model ----
(***************************************************************************)
(* A model of crates/nightmare/src/genvec.rs: the HandleAllocator (records *)
(* and free list) and one GenerationalVec<T> keyed by the handles.         *)
(* Rust indices are 0-based; a Vec is a TLA+ sequence, so the entry at     *)
(* Rust index i is the sequence's element i + 1.  An Option is a sequence  *)
(* of length at most one: None is <<>> and Some(x) is <<x>>.               *)
(***************************************************************************)
EXTENDS Naturals, Sequences, FiniteSets

\* ---------------------------------------------------------------- bounds
\* The allocator creates at most MaxRecords allocation records.
MaxRecords == 2
\* No index is recycled past generation MaxGen.
MaxGen == 2
\* The values stored are 1..MaxValue.
MaxValue == 2

Indices == 0..(MaxRecords - 1)
Generations == 0..MaxGen
Values == 1..MaxValue

\* struct Handle { index: usize, generation: usize }
Handle == [index : Indices, generation : Generations]

\* Option<T>
None == <<>>
Some(x) == <<x>>

\* struct Slot<T> { value: T, generation: usize }
Slot(value, generation) == [value |-> value, generation |-> generation]

\* struct Allocation { allocated: bool, generation: usize }
Allocation(allocated, generation) ==
    [allocated |-> allocated, generation |-> generation]

VARIABLES
    allocations,        \* HandleAllocator.allocations: Vec<Allocation>
    available_handles,  \* HandleAllocator.available_handles: Vec<usize>
    elements,           \* GenerationalVec.elements: Vec<Option<Slot<T>>>
    last,               \* the last call made: its name, handle, value and outcome
    before,             \* history: the generation stored at the last call's index before the call
    emptied,            \* history: what the remove before the last call cleared, when that call is an insert at its index
    issued,             \* history: the handles allocate() has returned
    retired,            \* history: the handles a deallocate() has taken effect on
    freed,              \* history: retired handles whose index is not yet reissued, oldest first
    reissues,           \* history: [old, new], new returned by allocate() for old's index after old retired
    writer              \* history: per slot, the handle of the insert that wrote it

allocVars == <<allocations, available_handles, issued, retired, freed, reissues>>
storeVars == <<elements, writer>>
vars ==
    <<allocations, available_handles, elements, last, before, emptied,
      issued, retired, freed, reissues, writer>>

\* ------------------------------------------------------- HandleAllocator

\* An existence check that also wants the record's flag set.
handle_exists_if_allocated(handle) ==
    /\ handle.index < Len(allocations)
    /\ allocations[handle.index + 1].allocated

\* handle.index < self.allocations.len()
handle_exists(handle) == handle.index < Len(allocations)

\* A validity check that compares the index and the flag but not the generation.
is_allocated_any_generation(handle) ==
    /\ handle_exists(handle)
    /\ allocations[handle.index + 1].allocated

\* A validity check that compares the index and the generation but not the flag.
is_allocated_ignores_flag(handle) ==
    /\ handle_exists(handle)
    /\ allocations[handle.index + 1].generation = handle.generation

is_allocated(handle) ==
    /\ handle_exists(handle)
    /\ allocations[handle.index + 1].generation = handle.generation
    /\ allocations[handle.index + 1].allocated

\* self.available_handles.pop(): the index at the end of the Vec.
pop_index == available_handles[Len(available_handles)]

\* A recycle that leaves the generation as it was.
same_generation(generation) == generation

\* A one-bit generation counter: it wraps round to 0 after 1.
wrapping_generation(generation) == (generation + 1) % 2

\* self.allocations[index].generation += 1
next_generation(generation) == generation + 1

\* An allocate() that reads the end of the free list but does not pop it.
allocate_peek ==
    IF available_handles # <<>>
    THEN LET index == pop_index
             generation == next_generation(allocations[index + 1].generation)
         IN  [allocations |->
                  [allocations EXCEPT ![index + 1] = Allocation(TRUE, generation)],
              available_handles |-> available_handles,
              handle |-> [index |-> index, generation |-> generation],
              result |-> "recycled"]
    ELSE LET pushed == Append(allocations, Allocation(TRUE, 0))
         IN  [allocations |-> pushed,
              available_handles |-> available_handles,
              handle |-> [index |-> Len(pushed) - 1, generation |-> 0],
              result |-> "fresh"]

\* An allocate() that serves the free list first-in first-out.
allocate_fifo ==
    IF available_handles # <<>>
    THEN LET index == available_handles[1]
             generation == next_generation(allocations[index + 1].generation)
         IN  [allocations |->
                  [allocations EXCEPT ![index + 1] = Allocation(TRUE, generation)],
              available_handles |-> Tail(available_handles),
              handle |-> [index |-> index, generation |-> generation],
              result |-> "recycled"]
    ELSE LET pushed == Append(allocations, Allocation(TRUE, 0))
         IN  [allocations |-> pushed,
              available_handles |-> available_handles,
              handle |-> [index |-> Len(pushed) - 1, generation |-> 0],
              result |-> "fresh"]

\* An allocate() that bumps a recycled record's generation but leaves its flag.
allocate_flag_not_set ==
    IF available_handles # <<>>
    THEN LET index == pop_index
             generation == next_generation(allocations[index + 1].generation)
         IN  [allocations |->
                  [allocations EXCEPT ![index + 1].generation = generation],
              available_handles |->
                  SubSeq(available_handles, 1, Len(available_handles) - 1),
              handle |-> [index |-> index, generation |-> generation],
              result |-> "recycled"]
    ELSE LET pushed == Append(allocations, Allocation(TRUE, 0))
         IN  [allocations |-> pushed,
              available_handles |-> available_handles,
              handle |-> [index |-> Len(pushed) - 1, generation |-> 0],
              result |-> "fresh"]

\* An allocate() that never looks at the free list: it always appends.
allocate_always_fresh ==
    LET pushed == Append(allocations, Allocation(TRUE, 0))
    IN  [allocations |-> pushed,
         available_handles |-> available_handles,
         handle |-> [index |-> Len(pushed) - 1, generation |-> 0],
         result |-> "fresh"]

\* allocate(): the new records, the new free list and the handle returned.
allocate ==
    IF available_handles # <<>>
    THEN LET index == pop_index
             generation == next_generation(allocations[index + 1].generation)
         IN  [allocations |->
                  [allocations EXCEPT ![index + 1] = Allocation(TRUE, generation)],
              available_handles |->
                  SubSeq(available_handles, 1, Len(available_handles) - 1),
              handle |-> [index |-> index, generation |-> generation],
              result |-> "recycled"]
    ELSE LET pushed == Append(allocations, Allocation(TRUE, 0))
         IN  [allocations |-> pushed,
              available_handles |-> available_handles,
              handle |-> [index |-> Len(pushed) - 1, generation |-> 0],
              result |-> "fresh"]

\* A deallocate() that pushes the index but leaves the record's flag set.
deallocate_flag_not_cleared(handle) ==
    IF ~is_allocated(handle)
    THEN [allocations |-> allocations,
          available_handles |-> available_handles,
          result |-> "noop"]
    ELSE [allocations |-> allocations,
          available_handles |-> Append(available_handles, handle.index),
          result |-> "freed"]

\* A deallocate() that bumps the generation when it frees.
deallocate_bumps_generation(handle) ==
    IF ~is_allocated(handle)
    THEN [allocations |-> allocations,
          available_handles |-> available_handles,
          result |-> "noop"]
    ELSE [allocations |->
              [allocations EXCEPT ![handle.index + 1] =
                  Allocation(FALSE, @.generation + 1)],
          available_handles |-> Append(available_handles, handle.index),
          result |-> "freed"]

\* A deallocate() that checks the index only, not is_allocated.
deallocate_unguarded(handle) ==
    IF ~handle_exists(handle)
    THEN [allocations |-> allocations,
          available_handles |-> available_handles,
          result |-> "noop"]
    ELSE [allocations |->
              [allocations EXCEPT ![handle.index + 1].allocated = FALSE],
          available_handles |-> Append(available_handles, handle.index),
          result |-> "freed"]

\* A deallocate() that clears the flag but does not push the index.
deallocate_forgets_index(handle) ==
    IF ~is_allocated(handle)
    THEN [allocations |-> allocations,
          available_handles |-> available_handles,
          result |-> "noop"]
    ELSE [allocations |->
              [allocations EXCEPT ![handle.index + 1].allocated = FALSE],
          available_handles |-> available_handles,
          result |-> "freed"]

\* allocate() with the generations from MaxGen on not told apart: a
\* generation that would pass MaxGen is recorded as MaxGen. With it allocate()
\* can be called for ever in a finite state space; what it says of a handle of
\* generation below MaxGen is what allocate() says.
allocate_capped ==
    LET r == allocate
    IN  IF r.handle.generation <= MaxGen THEN r
        ELSE [r EXCEPT !.handle.generation = MaxGen,
                       !.allocations[r.handle.index + 1].generation = MaxGen]

\* deallocate(handle): the new records and the new free list.
deallocate(handle) ==
    IF ~is_allocated(handle)
    THEN [allocations |-> allocations,
          available_handles |-> available_handles,
          result |-> "noop"]
    ELSE [allocations |->
              [allocations EXCEPT ![handle.index + 1].allocated = FALSE],
          available_handles |-> Append(available_handles, handle.index),
          result |-> "freed"]

RECURSIVE handles_from(_)
\* allocated_handles(): iter().enumerate().filter(allocated).map(Handle).collect()
handles_from(index) ==
    IF index >= Len(allocations) THEN <<>>
    ELSE (IF allocations[index + 1].allocated
          THEN <<[index |-> index, generation |-> allocations[index + 1].generation]>>
          ELSE <<>>) \o handles_from(index + 1)

\* An allocated_handles() without the filter: every record's handle.
allocated_handles_unfiltered ==
    [i \in 1..Len(allocations) |->
        [index |-> i - 1, generation |-> allocations[i].generation]]

allocated_handles == handles_from(0)

\* ------------------------------------------------------- GenerationalVec

\* The generation a storage slot holds: Some(generation), or None if the
\* index is out of bounds or the slot is empty.
StoredGeneration(index) ==
    IF index < Len(elements) /\ elements[index + 1] # None
    THEN Some(elements[index + 1][1].generation)
    ELSE None

RECURSIVE backfill_one_extra(_, _)
\* A backfill loop that runs once too often: while len <= index + 1.
backfill_one_extra(elems, index) ==
    IF Len(elems) <= index + 1
    THEN backfill_one_extra(Append(elems, None), index)
    ELSE elems

RECURSIVE backfill(_, _)
\* while self.elements.len() <= handle.index { self.elements.push(None); }
backfill(elems, index) ==
    IF Len(elems) <= index THEN backfill(Append(elems, None), index) ELSE elems

\* A previous generation that counts an empty or missing slot as generation 1.
previous_generation_empty_is_one(elems, handle) ==
    IF handle.index < Len(elems) /\ elems[handle.index + 1] # None
    THEN elems[handle.index + 1][1].generation
    ELSE 1

\* match self.elements.get(handle.index) { Some(Some(entry)) => entry.generation, _ => 0 }
previous_generation(elems, handle) ==
    IF handle.index < Len(elems) /\ elems[handle.index + 1] # None
    THEN elems[handle.index + 1][1].generation
    ELSE 0

\* A guard that also rejects an equal generation.
generation_error_on_equal(previous, handle) == previous >= handle.generation

\* A guard that never rejects.
generation_error_never(previous, handle) == FALSE

\* if previous_generation > handle.generation { return Err(GenerationError) }
generation_error(previous, handle) == previous > handle.generation

\* An insert() that overwrites the value but keeps the generation it found.
insert_keeps_generation(handle, value) ==
    LET grown == backfill(elements, handle.index)
        previous == previous_generation(grown, handle)
    IN  IF generation_error(previous, handle)
        THEN [elements |-> grown, result |-> "GenerationError",
              error |-> Some([handle |-> handle])]
        ELSE [elements |->
                  [grown EXCEPT ![handle.index + 1] = Some(Slot(value, previous))],
              result |-> "Ok",
              error |-> None]

\* An insert() that, when it rejects the handle, drops the value it protected.
insert_evicts_on_error(handle, value) ==
    LET grown == backfill(elements, handle.index)
    IN  IF generation_error(previous_generation(grown, handle), handle)
        THEN [elements |-> [grown EXCEPT ![handle.index + 1] = None],
              result |-> "GenerationError",
              error |-> Some([handle |-> handle])]
        ELSE [elements |->
                  [grown EXCEPT ![handle.index + 1] =
                      Some(Slot(value, handle.generation))],
              result |-> "Ok",
              error |-> None]

\* insert(handle, value): the new elements and Ok or the GenerationError.
insert(handle, value) ==
    LET grown == backfill(elements, handle.index)
    IN  IF generation_error(previous_generation(grown, handle), handle)
        THEN [elements |-> grown, result |-> "GenerationError",
              error |-> Some([handle |-> handle])]
        ELSE [elements |->
                  [grown EXCEPT ![handle.index + 1] =
                      Some(Slot(value, handle.generation))],
              result |-> "Ok",
              error |-> None]

\* A remove() whose bounds check is off by one: the last slot is never cleared.
remove_skips_last_slot(handle) ==
    IF handle.index + 1 < Len(elements)
    THEN [elements |-> [elements EXCEPT ![handle.index + 1] = None],
          result |-> "cleared"]
    ELSE [elements |-> elements, result |-> "noop"]

\* A remove() that clears the slot only when the generations match.
remove_checks_generation(handle) ==
    IF StoredGeneration(handle.index) = Some(handle.generation)
    THEN [elements |-> [elements EXCEPT ![handle.index + 1] = None],
          result |-> "cleared"]
    ELSE [elements |-> elements, result |-> "noop"]

\* A remove() done with Vec::swap_remove: the last slot moves into the hole.
remove_swap_remove(handle) ==
    IF handle.index < Len(elements)
    THEN [elements |->
              SubSeq([elements EXCEPT ![handle.index + 1] = elements[Len(elements)]],
                     1, Len(elements) - 1),
          result |-> "cleared"]
    ELSE [elements |-> elements, result |-> "noop"]

\* A remove() that reports an index out of bounds as an error.
remove_handle_not_found(handle) ==
    IF handle.index < Len(elements)
    THEN [elements |-> [elements EXCEPT ![handle.index + 1] = None],
          result |-> "cleared"]
    ELSE [elements |-> elements, result |-> "HandleNotFoundError"]

\* A remove() that grows the array to reach the index before clearing it.
remove_backfills(handle) ==
    LET grown == backfill(elements, handle.index)
    IN  [elements |-> [grown EXCEPT ![handle.index + 1] = None],
         result |-> "cleared"]

\* remove(handle): if let Some(e) = self.elements.get_mut(handle.index) { *e = None; }
remove(handle) ==
    IF handle.index < Len(elements)
    THEN [elements |-> [elements EXCEPT ![handle.index + 1] = None],
          result |-> "cleared"]
    ELSE [elements |-> elements, result |-> "noop"]

\* A lookup filter that also accepts a handle newer than the slot.
generation_at_most(slot, handle) == slot.generation <= handle.generation

\* A lookup filter that accepts any generation.
generation_ignored(slot, handle) == TRUE

\* .filter(|c| c.generation == handle.generation)
generation_matches(slot, handle) == slot.generation = handle.generation

\* get(handle) -> Option<&T>
get(handle) ==
    IF handle.index >= Len(elements) THEN None
    ELSE LET e == elements[handle.index + 1]
         IN  IF e # None /\ generation_matches(e[1], handle)
             THEN Some(e[1].value)
             ELSE None

\* get_mut(handle) -> Option<&mut T>: the value the reference points at.
get_mut(handle) ==
    IF handle.index >= Len(elements) THEN None
    ELSE LET e == elements[handle.index + 1]
         IN  IF e # None /\ generation_matches(e[1], handle)
             THEN Some(e[1].value)
             ELSE None

\* A write that replaces the whole slot by a new one of generation 0.
write_through_new_slot(handle, value) ==
    [elements EXCEPT ![handle.index + 1] = Some(Slot(value, 0))]

\* *vec.get_mut(handle).unwrap() = value: the write through the reference.
write_through(handle, value) ==
    [elements EXCEPT ![handle.index + 1] = Some([@[1] EXCEPT !.value = value])]

\* ---------------------------------------------------------------- calls

\* A call as the caller sees it: error is Some(GenerationError { handle }) or None.
Call(op, handle, value, result, error) ==
    [op |-> op, handle |-> handle, value |-> value, result |-> result, error |-> error]

\* HandleAllocator::new(), GenerationalVec::new(Vec::new())
Init ==
    /\ allocations = <<>>
    /\ available_handles = <<>>
    /\ elements = <<>>
    /\ last = Call("new", [index |-> 0, generation |-> 0], 0, "Ok", None)
    /\ before = None
    /\ emptied = None
    /\ issued = {}
    /\ retired = {}
    /\ freed = <<>>
    /\ reissues = {}
    /\ writer = <<>>

\* allocate() is called only while its result stays within the bounds.
Allocate ==
    LET r == allocate
    IN  /\ r.handle.index < MaxRecords
        /\ r.handle.generation <= MaxGen
        /\ allocations' = r.allocations
        /\ available_handles' = r.available_handles
        /\ last' = Call("allocate", r.handle, 0, r.result, None)
        /\ before' = StoredGeneration(r.handle.index)
        /\ emptied' = None
        /\ issued' = issued \cup {r.handle}
        /\ freed' = SelectSeq(freed, LAMBDA f : f.index # r.handle.index)
        /\ reissues' = reissues \cup
              {[old |-> h, new |-> r.handle] : h \in {x \in retired : x.index = r.handle.index}}
        /\ UNCHANGED <<retired, elements, writer>>

\* allocate(), called again and again: generations are capped, not the calls.
AllocateForever ==
    LET r == allocate_capped
    IN  /\ r.handle.index < MaxRecords
        /\ allocations' = r.allocations
        /\ available_handles' = r.available_handles
        /\ last' = Call("allocate", r.handle, 0, r.result, None)
        /\ before' = StoredGeneration(r.handle.index)
        /\ emptied' = None
        /\ issued' = issued \cup {r.handle}
        /\ freed' = SelectSeq(freed, LAMBDA f : f.index # r.handle.index)
        /\ reissues' = reissues \cup
              {[old |-> h, new |-> r.handle] : h \in {x \in retired : x.index = r.handle.index}}
        /\ UNCHANGED <<retired, elements, writer>>

\* A deallocate() fused with the storage: freeing a handle clears its slot.
DeallocateClearsStorage(handle) ==
    LET r == deallocate(handle)
        cleared == r.result = "freed" /\ handle.index < Len(elements)
    IN  /\ allocations' = r.allocations
        /\ available_handles' = r.available_handles
        /\ last' = Call("deallocate", handle, 0, r.result, None)
        /\ before' = StoredGeneration(handle.index)
        /\ emptied' = None
        /\ retired' = IF r.result = "freed" THEN retired \cup {handle} ELSE retired
        /\ freed' = IF r.result = "freed" THEN Append(freed, handle) ELSE freed
        /\ elements' = IF cleared
                       THEN [elements EXCEPT ![handle.index + 1] = None]
                       ELSE elements
        /\ writer' = IF cleared
                     THEN [writer EXCEPT ![handle.index + 1] = None]
                     ELSE writer
        /\ UNCHANGED <<issued, reissues>>

Deallocate(handle) ==
    LET r == deallocate(handle)
    IN  /\ allocations' = r.allocations
        /\ available_handles' = r.available_handles
        /\ last' = Call("deallocate", handle, 0, r.result, None)
        /\ before' = StoredGeneration(handle.index)
        /\ emptied' = None
        /\ retired' = IF r.result = "freed" THEN retired \cup {handle} ELSE retired
        /\ freed' = IF r.result = "freed" THEN Append(freed, handle) ELSE freed
        /\ UNCHANGED <<issued, reissues, elements, writer>>

Insert(handle, value) ==
    LET r == insert(handle, value)
    IN  /\ elements' = r.elements
        /\ last' = Call("insert", handle, value, r.result, r.error)
        /\ before' = StoredGeneration(handle.index)
        /\ emptied' = IF last.op = "remove" /\ last.handle.index = handle.index
                      THEN before
                      ELSE None
        /\ writer' =
              LET grown == backfill(writer, handle.index)
              IN  IF r.result = "Ok"
                  THEN [grown EXCEPT ![handle.index + 1] = Some(handle)]
                  ELSE grown
        /\ UNCHANGED allocVars

Remove(handle) ==
    LET r == remove(handle)
    IN  /\ elements' = r.elements
        /\ last' = Call("remove", handle, 0, r.result, None)
        /\ before' = StoredGeneration(handle.index)
        /\ emptied' = None
        /\ writer' = IF handle.index < Len(writer)
                     THEN [writer EXCEPT ![handle.index + 1] = None]
                     ELSE writer
        /\ UNCHANGED allocVars

GetMutWrite(handle, value) ==
    /\ get_mut(handle) # None
    /\ elements' = write_through(handle, value)
    /\ last' = Call("get_mut", handle, value, "Ok", None)
    /\ before' = StoredGeneration(handle.index)
    /\ emptied' = None
    /\ UNCHANGED writer
    /\ UNCHANGED allocVars

\* The usage contract on deallocate: every index on the free list has had its
\* storage slot emptied. When each deallocate(h) that took effect has been
\* followed by its remove(h), this holds, since no allocated handle is left to
\* insert at a freed index.
Paired ==
    \A k \in 1..Len(available_handles) :
        StoredGeneration(available_handles[k]) = None

\* An allocate() made without waiting for the removes.
AllocateUnpaired == Allocate

\* allocate(), called once every deallocate has been paired with its remove.
DisciplinedAllocate == Paired /\ Allocate

\* insert(handle, value), called with an allocated handle only.
DisciplinedInsert(handle, value) == is_allocated(handle) /\ Insert(handle, value)

\* The allocator on its own.
AllocatorNext ==
    \/ Allocate
    \/ \E handle \in Handle : Deallocate(handle)

\* One storage on its own, called with any handle.
StorageNext ==
    \/ \E handle \in Handle, value \in Values : Insert(handle, value)
    \/ \E handle \in Handle : Remove(handle)
    \/ \E handle \in Handle, value \in Values : GetMutWrite(handle, value)

\* An allocator and a storage used together, in any order.
Next ==
    \/ Allocate
    \/ \E handle \in Handle : Deallocate(handle)
    \/ \E handle \in Handle, value \in Values : Insert(handle, value)
    \/ \E handle \in Handle : Remove(handle)
    \/ \E handle \in Handle, value \in Values : GetMutWrite(handle, value)

\* An allocator and a storage used under the usage contract: insert with
\* allocated handles only, and no allocate between a deallocate and its remove.
DisciplinedNext ==
    \/ DisciplinedAllocate
    \/ \E handle \in Handle : Deallocate(handle)
    \/ \E handle \in Handle, value \in Values : DisciplinedInsert(handle, value)
    \/ \E handle \in Handle : Remove(handle)
    \/ \E handle \in Handle, value \in Values : GetMutWrite(handle, value)

\* The allocator on its own, with allocate() called for ever.
ReuseNext ==
    \/ AllocateForever
    \/ \E handle \in Handle : Deallocate(handle)

Spec == Init /\ [][Next]_vars
AllocatorSpec == Init /\ [][AllocatorNext]_vars
StorageSpec == Init /\ [][StorageNext]_vars
DisciplinedSpec == Init /\ [][DisciplinedNext]_vars

\* allocate() keeps being called: an allocate() that can be made is made.
ReuseSpec == Init /\ [][ReuseNext]_vars /\ WF_vars(AllocateForever)

\* ----------------------------------------------------------- type check

OptionOf(S) == {None} \cup {Some(x) : x \in S}

TypeOK ==
    /\ allocations \in Seq([allocated : BOOLEAN, generation : Generations])
    /\ Len(allocations) <= MaxRecords
    /\ available_handles \in Seq(Indices)
    /\ elements \in Seq(OptionOf([value : Values, generation : Generations]))
    /\ Len(elements) <= MaxRecords
    /\ before \in OptionOf(Generations)
    /\ emptied \in OptionOf(Generations)
    /\ issued \subseteq Handle
    /\ retired \subseteq Handle
    /\ freed \in Seq(Handle)
    /\ reissues \subseteq [old : Handle, new : Handle]
    /\ writer \in Seq(OptionOf(Handle))
    /\ Len(writer) = Len(elements)

\* ------------------------------------------------------------ properties

\* The handle under which the value in a slot was inserted, if any.
WrittenBy(index) ==
    IF index < Len(writer) THEN writer[index + 1] ELSE None

\* An Allocate step: the call recorded after it is an allocate.
AllocateStep == last'.op = "allocate"

\* C1: ABA safety. When h was retired and h2 was returned by a later allocate
\* for the same index, then in every state where the slot at that index holds a
\* value written by insert(h2, _), get(h) and get_mut(h) are absent; and a
\* lookup that returns a value was made with the generation of the handle the
\* value was inserted under.
C1_ABASafety ==
    /\ \A p \in reissues :
          WrittenBy(p.new.index) = Some(p.new)
              => get(p.old) = None /\ get_mut(p.old) = None
    /\ \A h \in Handle :
          get(h) # None \/ get_mut(h) # None
              => /\ WrittenBy(h.index) # None
                 /\ WrittenBy(h.index)[1].generation = h.generation

\* C1 witness: a retired handle's index was reissued, the slot holds a value
\* inserted under the new handle, the new handle reads it and the old does not.
C1_Witness ==
    \E p \in reissues :
        /\ WrittenBy(p.new.index) = Some(p.new)
        /\ get(p.new) # None
        /\ get(p.old) = None

\* C2: reuse is LIFO with a bump of exactly one. An allocate() made while the
\* free list is non-empty returns the index of the most recently retired handle
\* not yet reissued, with that handle's generation plus one; afterwards that
\* retired handle is not allocated, the returned one is, and every other handle
\* that was allocated still is (h0, h1, deallocate h0, h2: h2 = (h0.index,
\* h0.generation + 1), h0 invalid, h1 and h2 valid).
C2_LifoReuse ==
    [][AllocateStep /\ available_handles # <<>> =>
          /\ freed # <<>>
          /\ \A h0, h2 \in Handle :
                h0 = freed[Len(freed)] /\ h2 = last'.handle
                    => /\ h2.index = h0.index
                       /\ h2.generation = h0.generation + 1
                       /\ ~is_allocated(h0)'
                       /\ is_allocated(h2)'
                       /\ \A h1 \in Handle : is_allocated(h1) => is_allocated(h1)'
      ]_vars

\* C2 witness: the state after allocate h0, allocate h1, deallocate h0,
\* allocate h2.
C2_Witness ==
    /\ last = Call("allocate", [index |-> 0, generation |-> 1], 0, "recycled", None)
    /\ issued = {[index |-> 0, generation |-> 0], [index |-> 1, generation |-> 0],
                 [index |-> 0, generation |-> 1]}
    /\ retired = {[index |-> 0, generation |-> 0]}
    /\ ~is_allocated([index |-> 0, generation |-> 0])
    /\ is_allocated([index |-> 1, generation |-> 0])
    /\ is_allocated([index |-> 0, generation |-> 1])

\* C3: right after allocate() returns h, fresh or recycled, is_allocated(h).
C3_AllocatedAfterAllocate ==
    last.op = "allocate" => is_allocated(last.handle)

\* C3 witness: allocate() has just returned a recycled handle.
C3_Witness ==
    /\ last.op = "allocate"
    /\ last.result = "recycled"
    /\ last.handle \in issued
    /\ is_allocated(last.handle)

\* C4: right after deallocate(h) of an allocated h, is_allocated(h) is false.
C4_NotAllocatedAfterDeallocate ==
    last.op = "deallocate" /\ last.result = "freed" => ~is_allocated(last.handle)

\* C4 witness: deallocate(h) has just freed a handle that allocate() returned.
C4_Witness ==
    /\ last.op = "deallocate"
    /\ last.result = "freed"
    /\ last.handle \in issued
    /\ ~is_allocated(last.handle)

\* C5: a retired handle stays invalid: in every later state, whatever
\* allocate and deallocate calls were made, is_allocated(h) is false.
C5_RetiredStaysInvalid ==
    \A h \in retired : ~is_allocated(h)

\* C5 witness: a retired handle whose index has been reissued and is allocated
\* again under the new handle.
C5_Witness ==
    \E p \in reissues :
        /\ p.old \in retired
        /\ is_allocated(p.new)
        /\ ~is_allocated(p.old)

\* C6 as stated: once a retired handle's index has been reissued with a
\* strictly greater generation, get and get_mut of the retired handle are
\* absent in every later state, whatever insert and remove calls follow.
C6_RetiredNeverReadable ==
    \A p \in reissues :
        p.new.generation > p.old.generation
            => get(p.old) = None /\ get_mut(p.old) = None

\* h is retired, its index has been reissued with a strictly greater
\* generation, and the slot at its index holds a strictly greater generation.
Superseded(h) ==
    /\ \E p \in reissues : p.old = h /\ p.new.generation > h.generation
    /\ StoredGeneration(h.index) # None
    /\ StoredGeneration(h.index)[1] > h.generation

\* C6 amended: once a retired handle's index has been reissued with a strictly
\* greater generation and the slot at that index holds a value of a strictly
\* greater generation, get and get_mut of the retired handle are absent, and
\* this lasts through every later call except a remove at that index.
C6_RetiredUnreadableWhileNewerStored ==
    /\ [](\A h \in Handle : Superseded(h) => get(h) = None /\ get_mut(h) = None)
    /\ [][\A h \in Handle :
            Superseded(h) /\ ~(last'.op = "remove" /\ last'.handle.index = h.index)
                => Superseded(h)'
        ]_vars

\* C6 witness: an insert under the retired handle has just been rejected
\* because the slot holds the value of a newer generation.
C6_Witness ==
    /\ last.op = "insert"
    /\ last.result = "GenerationError"
    /\ Superseded(last.handle)
    /\ get(last.handle) = None

\* C7: at most one generation per index satisfies is_allocated, and allocate()
\* never returns a handle that is allocated at the time of the call.
C7_AllocatedHandlesDistinct ==
    /\ [](\A h1, h2 \in Handle :
            is_allocated(h1) /\ is_allocated(h2) /\ h1.index = h2.index => h1 = h2)
    /\ [][AllocateStep => ~is_allocated(last'.handle)]_vars

\* C7 witness: two handles are allocated, one of them just recycled.
C7_Witness ==
    /\ last.op = "allocate"
    /\ last.result = "recycled"
    /\ Cardinality({h \in issued : is_allocated(h)}) = 2

\* C8: a record's generation never decreases; it grows by exactly one in an
\* allocate() that recycles its index and is unchanged by every other call
\* (deallocate, an allocate() returning another index).
C8_GenerationMonotone ==
    [][/\ Len(allocations') >= Len(allocations)
       /\ \A i \in 1..Len(allocations) :
             /\ allocations'[i].generation >= allocations[i].generation
             /\ allocations'[i].generation =
                   IF AllocateStep /\ last'.handle.index = i - 1
                   THEN allocations[i].generation + 1
                   ELSE allocations[i].generation
      ]_vars

\* C8 witness: an index has been recycled twice while another record is still
\* at generation 0.
C8_Witness ==
    /\ last.op = "allocate"
    /\ last.handle.generation = 2
    /\ allocations[last.handle.index + 1].generation = 2
    /\ \E i \in 1..Len(allocations) : allocations[i].generation = 0

\* No index occurs twice in the free list.
NoDuplicates(indices) ==
    \A i, j \in 1..Len(indices) : i # j => indices[i] # indices[j]

\* C9: deallocate(h) with is_allocated(h) false (index out of range, generation
\* mismatch, second deallocate) changes neither the records nor the free list,
\* and no index is ever on the free list twice.
C9_DeallocateInvalidIsNoop ==
    /\ [][last'.op = "deallocate" /\ ~is_allocated(last'.handle)
            => allocations' = allocations /\ available_handles' = available_handles
        ]_vars
    /\ [](NoDuplicates(available_handles))

\* C9 witness: a second deallocate of a handle that is already retired and not
\* yet reissued has just returned, and its index is on the free list once.
C9_Witness ==
    /\ last.op = "deallocate"
    /\ last.result = "noop"
    /\ last.handle \in retired
    /\ handle_exists(last.handle)
    /\ allocations[last.handle.index + 1].generation = last.handle.generation
    /\ available_handles = <<last.handle.index>>

\* C10: when the slot at h.index holds generation g, insert(h, v) with
\* h.generation >= g succeeds and leaves the slot holding {v, h.generation};
\* with h.generation < g it fails with a GenerationError carrying h and the
\* slot keeps the newer value.
C10_InsertGenerationGuard ==
    [][last'.op = "insert" =>
          LET h == last'.handle
              v == last'.value
              stored == StoredGeneration(h.index)
          IN  stored # None =>
                  IF h.generation >= stored[1]
                  THEN /\ last'.result = "Ok"
                       /\ last'.error = None
                       /\ elements'[h.index + 1] = Some(Slot(v, h.generation))
                  ELSE /\ last'.result = "GenerationError"
                       /\ last'.error = Some([handle |-> h])
                       /\ elements'[h.index + 1] = elements[h.index + 1]
      ]_vars

\* C10 witness: an insert with an older generation has just failed and the
\* value of the newer generation is still read by the newer handle.
C10_Witness ==
    /\ last.op = "insert"
    /\ last.error = Some([handle |-> last.handle])
    /\ \E g \in Generations :
          /\ g > last.handle.generation
          /\ StoredGeneration(last.handle.index) = Some(g)
          /\ get([index |-> last.handle.index, generation |-> g]) # None

\* C11: round trip. Right after insert(h, v) returned Ok, get(h) is Some(v),
\* whatever the array's length and the slot's content were before.
C11_InsertThenGet ==
    last.op = "insert" /\ last.result = "Ok" => get(last.handle) = Some(last.value)

\* C11 witness: an insert beyond the end of the array has succeeded (the array
\* was grown) and its value is read back.
C11_Witness ==
    /\ last.op = "insert"
    /\ last.result = "Ok"
    /\ last.handle.index = 1
    /\ last.handle.generation = 1
    /\ elements[1] = None
    /\ get(last.handle) = Some(last.value)

\* C12: tombstone. Right after remove(h), for any h and any storage, get(h)
\* and get_mut(h) are absent.
C12_RemoveThenGet ==
    last.op = "remove" => get(last.handle) = None /\ get_mut(last.handle) = None

\* C12 witness: remove(h) has just cleared the slot that held a value of h's
\* generation.
C12_Witness ==
    /\ last.op = "remove"
    /\ last.result = "cleared"
    /\ before = Some(last.handle.generation)
    /\ get(last.handle) = None

\* C13: get(h) and get_mut(h) return the stored value exactly when h.index is
\* in bounds, the slot is occupied and its generation equals h.generation; in
\* every other case both are absent; they agree on presence.
C13_GetExactGeneration ==
    \A h \in Handle :
        /\ get(h) =
              IF /\ h.index < Len(elements)
                 /\ elements[h.index + 1] # None
                 /\ elements[h.index + 1][1].generation = h.generation
              THEN Some(elements[h.index + 1][1].value)
              ELSE None
        /\ (get_mut(h) = None) <=> (get(h) = None)
        /\ get_mut(h) = get(h)
        /\ get(h) # None <=>
              /\ WrittenBy(h.index) # None
              /\ WrittenBy(h.index)[1].generation = h.generation

\* C13 witness: one storage state with a handle out of bounds, a handle older
\* and a handle newer than the occupied slot, all absent, and the exact handle
\* present.
C13_Witness ==
    /\ Len(elements) = 1
    /\ StoredGeneration(0) = Some(1)
    /\ get([index |-> 1, generation |-> 1]) = None
    /\ get([index |-> 0, generation |-> 0]) = None
    /\ get([index |-> 0, generation |-> 2]) = None
    /\ get([index |-> 0, generation |-> 1]) # None

\* C14: remove checks the index only. Right after remove(h) with h.index in
\* bounds the slot is empty, whatever generation it held: a value of a newer
\* generation is cleared by a stale handle and its own handle then reads
\* nothing.
C14_RemoveIgnoresGeneration ==
    last.op = "remove" =>
        /\ last.handle.index < Len(elements) =>
              last.result = "cleared" /\ elements[last.handle.index + 1] = None
        /\ before # None =>
              /\ StoredGeneration(last.handle.index) = None
              /\ get([index |-> last.handle.index, generation |-> before[1]]) = None

\* C14 witness: a remove with a stale handle has just cleared a slot that held
\* a value of a newer generation.
C14_Witness ==
    /\ last.op = "remove"
    /\ before # None
    /\ before[1] > last.handle.generation
    /\ StoredGeneration(last.handle.index) = None
    /\ get([index |-> last.handle.index, generation |-> before[1]]) = None

\* C15: is_allocated(h) holds exactly when h.index is below the number of
\* records, the record's generation is h.generation and its flag is set; for
\* an index out of range it is false. This is the same as: h was returned by
\* allocate() and no deallocate has taken effect on it.
C15_IsAllocatedExact ==
    \A h \in Handle :
        /\ is_allocated(h) <=>
              /\ h.index < Len(allocations)
              /\ allocations[h.index + 1] = Allocation(TRUE, h.generation)
        /\ h.index >= Len(allocations) => ~is_allocated(h)
        /\ is_allocated(h) <=> h \in issued \ retired

\* C15 witness: one allocator state with a handle that is allocated, a stale
\* one, a future one and one out of range.
C15_Witness ==
    /\ Len(allocations) = 1
    /\ is_allocated([index |-> 0, generation |-> 1])
    /\ ~is_allocated([index |-> 0, generation |-> 0])
    /\ ~is_allocated([index |-> 0, generation |-> 2])
    /\ ~is_allocated([index |-> 1, generation |-> 0])

\* The handles of a sequence, as a set.
Range(handles) == {handles[i] : i \in 1..Len(handles)}

\* C16: allocated_handles() is exactly the handles with is_allocated: one per
\* allocated record, with the record's generation, in strictly ascending index
\* order, and no deallocated index.
C16_AllocatedHandlesExact ==
    LET listed == allocated_handles
    IN  /\ Range(listed) = {h \in Handle : is_allocated(h)}
        /\ \A i, j \in 1..Len(listed) : i < j => listed[i].index < listed[j].index
        /\ \A i \in 1..Len(listed) :
              /\ allocations[listed[i].index + 1].allocated
              /\ allocations[listed[i].index + 1].generation = listed[i].generation
        /\ Range(listed) = issued \ retired

\* C16 witness: index 0 is deallocated, index 1 was recycled, and the list
\* holds index 1 alone with its current generation.
C16_Witness ==
    /\ Len(allocations) = 2
    /\ ~allocations[1].allocated
    /\ allocated_handles = <<[index |-> 1, generation |-> 1]>>

\* C17: deallocation does not touch storage. A deallocate step leaves the
\* elements, and so every get, unchanged; right after deallocate(h) a value
\* inserted under h is still returned by get(h).
C17_DeallocateLeavesStorage ==
    /\ [][last'.op = "deallocate" =>
            /\ elements' = elements
            /\ \A h \in Handle : get(h)' = get(h)
        ]_vars
    /\ [](last.op = "deallocate" /\ before = Some(last.handle.generation)
            => get(last.handle) # None)

\* C17 witness: deallocate(h) has just taken effect, the allocator reports h
\* as not allocated, and the storage still returns the value inserted under h.
C17_Witness ==
    /\ last.op = "deallocate"
    /\ last.result = "freed"
    /\ ~is_allocated(last.handle)
    /\ WrittenBy(last.handle.index) = Some(last.handle)
    /\ get(last.handle) # None

\* The outcomes a call can report that are not errors.
Outcomes == {"Ok", "fresh", "recycled", "freed", "noop", "cleared"}

\* C18: the only error any call reports is the GenerationError of insert,
\* carrying the handle given; no call reports a HandleNotFoundError; and the
\* queries have a result for every handle, out of range, stale or future.
C18_OnlyGenerationError ==
    /\ last.result \in Outcomes \cup {"GenerationError"}
    /\ last.result # "HandleNotFoundError"
    /\ last.result = "GenerationError" => last.op = "insert"
    /\ last.error # None =>
          /\ last.op = "insert"
          /\ last.result = "GenerationError"
          /\ last.error = Some([handle |-> last.handle])
    /\ \A h \in Handle :
          /\ is_allocated(h) \in BOOLEAN
          /\ handle_exists(h) \in BOOLEAN
          /\ get(h) \in OptionOf(Values)
          /\ get_mut(h) \in OptionOf(Values)
    /\ allocated_handles \in Seq(Handle)

\* C18 witness: a remove with a future handle whose index is out of bounds
\* has returned without an error, while the allocator holds a retired handle.
C18_Witness ==
    /\ last.op = "remove"
    /\ last.result = "noop"
    /\ last.error = None
    /\ last.handle.index >= Len(elements)
    /\ last.handle.generation = MaxGen
    /\ retired # {}

\* C19: insert(h, v), successful or not, and remove(h) leave every slot at
\* another index as it was: its stored generation and what any handle of that
\* index reads are unchanged.
C19_StorageCallsAreLocal ==
    [][last'.op \in {"insert", "remove"} =>
          \A k \in Handle :
              k.index # last'.handle.index =>
                  /\ StoredGeneration(k.index)' = StoredGeneration(k.index)
                  /\ get(k)' = get(k)
      ]_vars

\* C19 witness: remove(h) has just cleared an occupied slot and a handle of
\* another index still reads its value.
C19_Witness ==
    /\ last.op = "remove"
    /\ before # None
    /\ get(last.handle) = None
    /\ \E k \in Handle : k.index # last.handle.index /\ get(k) # None

\* The handles whose generation the capped allocator records exactly.
ExactHandle == {h \in Handle : h.generation < MaxGen}

\* A deallocate has taken effect on h and h.index has not been returned since.
AwaitsReissue(h) == h \in retired /\ ~(\E p \in reissues : p.old = h)

\* allocate() has returned h.index again with a strictly greater generation.
Reissued(h) ==
    \E p \in reissues :
        p.old = h /\ p.new.index = h.index /\ p.new.generation > h.generation

\* The last call was a deallocate that took effect.
DeallocateTookEffect == last.op = "deallocate" /\ last.result = "freed"

\* C20 as stated: after deallocate(h) has taken effect, if allocate() keeps
\* being called, h.index is eventually returned again with a strictly greater
\* generation.
C20_EventuallyReissued ==
    \A h \in ExactHandle : AwaitsReissue(h) ~> Reissued(h)

\* C20 amended: after deallocate(h) has taken effect, if allocate() keeps being
\* called, then either h.index is eventually returned again with a strictly
\* greater generation or another deallocate takes effect first.
C20_ReissuedUnlessDeallocate ==
    \A h \in ExactHandle :
        (AwaitsReissue(h) /\ ~DeallocateTookEffect)
            ~> (Reissued(h) \/ DeallocateTookEffect)

\* C20 witness: both indices were freed and both have been reissued, index 0
\* by the allocate() that has just returned.
C20_Witness ==
    /\ last = Call("allocate", [index |-> 0, generation |-> 1], 0, "recycled", None)
    /\ Reissued([index |-> 0, generation |-> 0])
    /\ Reissued([index |-> 1, generation |-> 0])
    /\ is_allocated([index |-> 1, generation |-> 1])

\* C21: fresh issuance. An allocate() made while the free list is empty
\* appends exactly one record {allocated: true, generation: 0} and returns the
\* handle (previous record count, 0); an allocate() made while the free list
\* is non-empty leaves the record count as it was. So the indices issued so
\* far are exactly 0 .. record count - 1.
C21_FreshIssuance ==
    /\ [][AllocateStep =>
            IF available_handles = <<>>
            THEN /\ allocations' = Append(allocations, Allocation(TRUE, 0))
                 /\ last'.handle = [index |-> Len(allocations), generation |-> 0]
                 /\ last'.result = "fresh"
            ELSE /\ Len(allocations') = Len(allocations)
                 /\ last'.result = "recycled"
        ]_vars
    /\ []({h.index : h \in issued} = {i \in Indices : i < Len(allocations)})

\* C21 witness: index 0 was freed and recycled, and then, the free list being
\* empty, allocate() has just created index 1.
C21_Witness ==
    /\ last = Call("allocate", [index |-> 1, generation |-> 0], 0, "fresh", None)
    /\ [index |-> 0, generation |-> 1] \in issued
    /\ Len(allocations) = 2
    /\ allocations[2] = Allocation(TRUE, 0)
    /\ available_handles = <<>>

\* The indices whose record is not allocated.
Unallocated == {i \in Indices : i < Len(allocations) /\ ~allocations[i + 1].allocated}

\* C22: the free list holds exactly the indices whose record has allocated =
\* false, each once, all below the record count; the allocated records and the
\* free list add up to the record count; and the index allocate() would pop is
\* in range and not allocated.
C22_FreeListInvariant ==
    /\ Range(available_handles) = Unallocated
    /\ NoDuplicates(available_handles)
    /\ \A k \in 1..Len(available_handles) : available_handles[k] < Len(allocations)
    /\ Cardinality({i \in 1..Len(allocations) : allocations[i].allocated})
          + Len(available_handles) = Len(allocations)
    /\ available_handles # <<>> =>
          /\ pop_index < Len(allocations)
          /\ ~allocations[pop_index + 1].allocated

\* C22 witness: both indices were freed and one was recycled: one record is
\* allocated at generation 1 and the other index is alone on the free list.
C22_Witness ==
    /\ Len(allocations) = 2
    /\ allocations[2] = Allocation(TRUE, 1)
    /\ ~allocations[1].allocated
    /\ available_handles = <<0>>

\* C23: handle_exists(h) holds exactly when h.index is below the record count,
\* that is when allocate() has ever returned that index, whatever h.generation
\* is and whether or not the record is allocated; and once true it stays true
\* through every later call.
C23_HandleExists ==
    /\ [](\A h \in Handle :
            /\ handle_exists(h) <=> h.index < Len(allocations)
            /\ handle_exists(h) <=> \E x \in issued : x.index = h.index)
    /\ [][\A h \in Handle : handle_exists(h) => handle_exists(h)']_vars

\* C23 witness: a handle has just been deallocated; it and a handle of a
\* generation never issued exist, and a handle of the next index does not.
C23_Witness ==
    /\ last.op = "deallocate"
    /\ last.result = "freed"
    /\ last.handle.index = 0
    /\ ~is_allocated(last.handle)
    /\ handle_exists(last.handle)
    /\ handle_exists([index |-> 0, generation |-> MaxGen])
    /\ ~handle_exists([index |-> 1, generation |-> 0])

\* C24: a write through get_mut(h) on a present value replaces only the
\* value: afterwards get(h) is the new value, the slot still holds
\* h.generation, every other slot and the length are as before, and every
\* handle reads a value after the write exactly when it did before.
C24_WriteKeepsGeneration ==
    [][last'.op = "get_mut" =>
          /\ get(last'.handle) # None
          /\ \A h \in Handle :
                h = last'.handle =>
                    /\ get(h)' = Some(last'.value)
                    /\ StoredGeneration(h.index)' = Some(h.generation)
          /\ Len(elements') = Len(elements)
          /\ \A i \in Indices : StoredGeneration(i)' = StoredGeneration(i)
          /\ \A k \in Handle :
                /\ (get(k)' = None) <=> (get(k) = None)
                /\ k.index # last'.handle.index => get(k)' = get(k)
      ]_vars

\* C24 witness: a value inserted under a handle of generation 1 has just been
\* overwritten through get_mut; the handle reads the new value and a handle of
\* another generation at that index reads nothing.
C24_Witness ==
    /\ last.op = "get_mut"
    /\ last.handle.generation = 1
    /\ before = Some(1)
    /\ WrittenBy(last.handle.index) = Some(last.handle)
    /\ StoredGeneration(last.handle.index) = Some(1)
    /\ get(last.handle) = Some(last.value)
    /\ get([index |-> last.handle.index, generation |-> 0]) = None

\* C25: handles are never reissued: the handle an allocate() returns is equal
\* to none of the handles any earlier allocate() returned, deallocated since
\* or not (generations staying within the bound, so without overflow).
C25_NeverReissued ==
    [][AllocateStep => last'.handle \notin issued]_vars

\* C25 witness: one index has been issued at generations 0, 1 and 2, the
\* first two since deallocated.
C25_Witness ==
    /\ last.op = "allocate"
    /\ last.handle.generation = 2
    /\ \A g \in Generations :
          [index |-> last.handle.index, generation |-> g] \in issued
    /\ \A g \in 0..1 :
          [index |-> last.handle.index, generation |-> g] \in retired
    /\ last.handle \notin retired

\* C26: a failed insert changes nothing: when insert(h, v) returns a
\* GenerationError the elements are what they were, length included; the slot
\* at h.index was in bounds and held a greater generation, so the backfill
\* loop added nothing.
C26_FailedInsertChangesNothing ==
    [][last'.op = "insert" /\ last'.result = "GenerationError" =>
          /\ elements' = elements
          /\ Len(elements') = Len(elements)
          /\ last'.handle.index < Len(elements)
          /\ StoredGeneration(last'.handle.index) # None
          /\ StoredGeneration(last'.handle.index)[1] > last'.handle.generation
          /\ \A k \in Handle : get(k)' = get(k)
      ]_vars

\* C26 witness: an insert into the last slot of the array has just failed; the
\* array is no longer than before and the slot's own handle reads its value.
C26_Witness ==
    /\ last.op = "insert"
    /\ last.result = "GenerationError"
    /\ Len(elements) = last.handle.index + 1
    /\ before # None
    /\ before = StoredGeneration(last.handle.index)
    /\ before[1] > last.handle.generation
    /\ get([index |-> last.handle.index, generation |-> before[1]]) # None

\* C27: an empty slot counts as generation 0, so remove resets the guard: an
\* insert(h, v) into a slot that is empty or beyond the end of the array
\* succeeds whatever h.generation is, and get(h) then returns v; in particular
\* an insert made right after a remove at its index succeeds, also when the
\* remove cleared a generation greater than h.generation.
C27_EmptySlotIsGenerationZero ==
    [][last'.op = "insert" =>
          \A h \in Handle :
              h = last'.handle =>
                  /\ StoredGeneration(h.index) = None =>
                        /\ previous_generation(elements, h) = 0
                        /\ last'.result = "Ok"
                        /\ get(h)' = Some(last'.value)
                  /\ last.op = "remove" /\ last.handle.index = h.index =>
                        /\ last'.result = "Ok"
                        /\ get(h)' = Some(last'.value)
                        /\ emptied' = before
      ]_vars

\* C27 witness: a remove cleared a slot holding a generation greater than that
\* of the handle then inserted; the insert succeeded and the older handle
\* reads its value.
C27_Witness ==
    /\ last.op = "insert"
    /\ last.result = "Ok"
    /\ emptied # None
    /\ emptied[1] > last.handle.generation
    /\ before = None
    /\ StoredGeneration(last.handle.index) = Some(last.handle.generation)
    /\ get(last.handle) = Some(last.value)

\* The greater of two numbers.
Max(a, b) == IF a >= b THEN a ELSE b

\* C28: after insert(h, v) the array length is max(previous length,
\* h.index + 1); every entry added below h.index is empty and every existing
\* entry other than the one at h.index is where it was; and no call shortens
\* the array (remove keeps the length).
C28_Backfill ==
    [][/\ Len(elements') >= Len(elements)
       /\ last'.op = "remove" => Len(elements') = Len(elements)
       /\ last'.op = "insert" =>
             LET h == last'.handle
             IN  /\ Len(elements') = Max(Len(elements), h.index + 1)
                 /\ \A i \in (Len(elements) + 1)..h.index : elements'[i] = None
                 /\ \A i \in 1..Len(elements) :
                       i # h.index + 1 => elements'[i] = elements[i]
      ]_vars

\* C28 witness: an insert at index 1 into an empty array has just grown it to
\* two entries, the first of them empty.
C28_Witness ==
    /\ last.op = "insert"
    /\ last.result = "Ok"
    /\ last.handle = [index |-> 1, generation |-> 0]
    /\ before = None
    /\ Len(elements) = 2
    /\ elements[1] = None
    /\ WrittenBy(0) = None
    /\ elements[2] = Some(Slot(last.value, 0))

\* C30: remove(h) with h.index out of bounds leaves the elements as they
\* were, length included; and remove is idempotent: a second remove(h), made
\* right after the first, would leave the elements as the first left them.
C30_RemoveIdempotent ==
    [][last'.op = "remove" =>
          /\ last'.handle.index >= Len(elements) =>
                elements' = elements /\ Len(elements') = Len(elements)
          /\ \A h \in Handle :
                h = last'.handle => remove(h).elements' = elements'
      ]_vars

\* C30 witness: a remove at an index beyond the end of a one-entry array has
\* just returned; the array still has one entry and its value is still read.
C30_Witness ==
    /\ last.op = "remove"
    /\ last.result = "noop"
    /\ last.handle.index = 1
    /\ Len(elements) = 1
    /\ StoredGeneration(0) # None
    /\ \E k \in Handle : k.index = 0 /\ get(k) # None

\* An occupied slot whose index has an allocated record of the slot's
\* generation.
Live(index) ==
    /\ index < Len(allocations)
    /\ allocations[index + 1] = Allocation(TRUE, StoredGeneration(index)[1])

\* C29 as stated: under the usage contract, in every reachable state each
\* occupied slot at index i with generation g has a record for i with
\* allocated = true and generation = g, and no insert fails.
C29_OccupiedSlotsAllocated ==
    /\ \A i \in Indices : StoredGeneration(i) # None => Live(i)
    /\ last.op = "insert" => last.result = "Ok"

\* C29 amended: under the usage contract, each occupied slot at index i with
\* generation g has a record for i of generation g in every reachable state,
\* and that record is allocated in every state where no deallocate awaits its
\* remove; a slot whose record is not allocated is the slot of a handle
\* deallocated and not yet removed; and no insert fails.
C29_OccupiedSlotsAllocatedOncePaired ==
    /\ \A i \in Indices :
          StoredGeneration(i) # None =>
              /\ i < Len(allocations)
              /\ allocations[i + 1].generation = StoredGeneration(i)[1]
              /\ Paired => Live(i)
              /\ ~Live(i) =>
                    \E k \in 1..Len(freed) :
                        freed[k] = [index |-> i, generation |-> StoredGeneration(i)[1]]
    /\ last.op = "insert" => last.result = "Ok"

\* C29 witness: an index was freed, its slot removed and the index reissued;
\* a value has just been inserted under the new handle, nothing awaits a
\* remove, and both slots are occupied under allocated records.
C29_Witness ==
    /\ last.op = "insert"
    /\ last.result = "Ok"
    /\ Paired
    /\ \E p \in reissues :
          /\ p.new = last.handle
          /\ is_allocated(p.new)
          /\ WrittenBy(p.new.index) = Some(p.new)
    /\ \A i \in Indices : StoredGeneration(i) # None /\ Live(i)

====
